---- MODULE Spec2Model ----
(***************************************************************************)
(* Model of the PSO course-timetabling core of schedule-optimization:      *)
(*   - the decoder  PSO::position_to_schedule   (algorithms/optimizer.rs)  *)
(*   - the evaluator FitnessCalculator          (algorithms/fitness.rs)    *)
(*   - the engine   PSO::optimize, Particle     (algorithms/optimizer.rs)  *)
(*   - the run controller process_pso, stop_pso (lib.rs)                   *)
(*                                                                         *)
(* Floating-point scores are modelled in fixed point: the integer k stands *)
(* for the f32 value k / Scale.  Fitness values are the u32 penalties cast *)
(* to f32 (exact for the values reached); f32::INFINITY is INFINITY.       *)
(***************************************************************************)
EXTENDS Integers, Sequences, FiniteSets, TLC

(***************************************************************************)
(* Bounds of the model                                                     *)
(***************************************************************************)
\* fixed-point scale of positions and velocities: k stands for k / Scale
Scale == 2
\* longest course list fed to the decoder in SpecDecode
MaxCourses == 2
\* largest max_iterations parameter of a run
MaxIterations == 2
\* largest num_runs parameter of process_pso
MaxRuns == 2
\* most courses of a timetable handed to the evaluator directly
MaxTimetable == 3
\* most courses of the one group fed to the decoder in SpecPack
MaxGroup == 4

\* most particles process_pso creates in all its runs: swarm_size * num_runs
MaxParticles == 2
\* most process_pso invocations in progress together in SpecCalls
MaxCalls == 2

(***************************************************************************)
(* Generic helpers                                                         *)
(***************************************************************************)
Min2(a, b) == IF a < b THEN a ELSE b

Max2(a, b) == IF a > b THEN a ELSE b

\* f32::clamp(lo, hi)
Clamp(x, lo, hi) == IF x < lo THEN lo ELSE IF x > hi THEN hi ELSE x

RECURSIVE SumSeq(_)
SumSeq(s) == IF s = <<>> THEN 0 ELSE Head(s) + SumSeq(Tail(s))

RECURSIVE Concat(_)
Concat(ss) == IF ss = <<>> THEN <<>> ELSE Head(ss) \o Concat(Tail(ss))

\* all orders in which a hash map may hand out the keys of the set S
RECURSIVE Orders(_)
Orders(S) ==
    IF S = {} THEN { <<>> }
    ELSE UNION { { <<k>> \o o : o \in Orders(S \ {k}) } : k \in S }

(***************************************************************************)
(* Decoder: PSO::position_to_schedule                                      *)
(***************************************************************************)
\* OptimizedCourse built from a CourseRequest: hari, jam_mulai, jam_akhir and
\* ruangan start at 0
OptimizedCourse(course) ==
    [ id_jadwal |-> course.id_jadwal, id_matkul |-> course.id_matkul,
      id_dosen  |-> course.id_dosen,  id_kelas  |-> course.id_kelas,
      id_waktu  |-> course.id_waktu,  hari      |-> 0,
      jam_mulai |-> 0,                jam_akhir |-> 0,
      ruangan   |-> 0,                semester  |-> course.semester,
      sks       |-> course.sks,       prodi     |-> course.prodi ]

\* key of the first grouping
GroupKey(course) ==
    << course.prodi, course.semester, course.id_kelas, course.id_waktu >>

\* number of courses the grouping loop consumes before `idx + 1 >= len` breaks
NumGrouped(position, courses) == Min2(Len(courses), Len(position) \div 2)

\* Entries with the scores truncated to whole numbers
EntriesTruncated(position, courses) ==
    [ i \in 1..NumGrouped(position, courses) |->
        [ day_order  |-> position[2 * i - 1] \div Scale,
          time_order |-> position[2 * i] \div Scale,
          course     |-> OptimizedCourse(courses[i]) ] ]

\* the (day_order, time_order, course) triples in input order
Entries(position, courses) ==
    [ i \in 1..NumGrouped(position, courses) |->
        [ day_order  |-> position[2 * i - 1],
          time_order |-> position[2 * i],
          course     |-> OptimizedCourse(courses[i]) ] ]

\* grouped[key]: the entries of one key, in insertion (input) order
Grouped(position, courses, key) ==
    SelectSeq(Entries(position, courses), LAMBDA e : GroupKey(e.course) = key)

GroupKeys(position, courses) ==
    { GroupKey(Entries(position, courses)[i].course) :
        i \in 1..NumGrouped(position, courses) }

\* slice::sort_by on the field f: a stable sort (insertion keeps equal keys in order)
RECURSIVE SortBy(_, _)
SortBy(s, f) ==
    IF s = <<>> THEN <<>>
    ELSE LET rest == SortBy(SubSeq(s, 1, Len(s) - 1), f)
             e    == s[Len(s)]
             k    == Cardinality({ i \in 1..Len(rest) : rest[i][f] <= e[f] })
         IN  SubSeq(rest, 1, k) \o <<e>> \o SubSeq(rest, k + 1, Len(rest))

\* a per-day SKS limit that two courses of 5 SKS fit in
MaxSksTwelve(n) == IF n = 4 THEN 3 ELSE 12

\* a per-day SKS limit of 8 for groups of other than four courses
MaxSksEight(n) == IF n = 4 THEN 3 ELSE 8

\* per-day SKS limit of a group
MaxSks(n) == IF n = 4 THEN 3 ELSE 6

\* FindDay with the search restarted at Monday for every course
FindDayFromMonday(sks_per_day, current_day, sks, max_sks) ==
    IF \E d \in 0..4 : sks_per_day[d + 1] + sks <= max_sks
    THEN CHOOSE d \in 0..4 :
            /\ sks_per_day[d + 1] + sks <= max_sks
            /\ \A c \in 0..(d - 1) : sks_per_day[c + 1] + sks > max_sks
    ELSE 5

\* the `while current_day < 5` loop: the first day index (0-based) at or after
\* current_day that still has room, or 5 when there is none
RECURSIVE FindDay(_, _, _, _)
FindDay(sks_per_day, current_day, sks, max_sks) ==
    IF current_day >= 5 THEN 5
    ELSE IF sks_per_day[current_day + 1] + sks <= max_sks THEN current_day
    ELSE FindDay(sks_per_day, current_day + 1, sks, max_sks)

\* PackDays without the Friday fallback: a course that found no day keeps hari = 0
RECURSIVE PackDaysNoFallback(_, _, _, _)
PackDaysNoFallback(sorted, sks_per_day, current_day, max_sks) ==
    IF sorted = <<>> THEN <<>>
    ELSE LET e   == Head(sorted)
             d   == FindDay(sks_per_day, current_day, e.course.sks, max_sks)
             ld  == IF d < 5
                    THEN [sks_per_day EXCEPT ![d + 1] = @ + e.course.sks]
                    ELSE sks_per_day
             har == IF d < 5 THEN d + 1 ELSE 0
         IN  << [ time_order |-> e.time_order,
                  course     |-> [e.course EXCEPT !.hari = har] ] >>
             \o PackDaysNoFallback(Tail(sorted), ld, d, max_sks)

\* day assignment of one sorted group; the cursor and the loads carry over
RECURSIVE PackDays(_, _, _, _)
PackDays(sorted, sks_per_day, current_day, max_sks) ==
    IF sorted = <<>> THEN <<>>
    ELSE LET e   == Head(sorted)
             d   == FindDay(sks_per_day, current_day, e.course.sks, max_sks)
             ld  == IF d < 5
                    THEN [sks_per_day EXCEPT ![d + 1] = @ + e.course.sks]
                    ELSE sks_per_day
             \* Friday fallback when the loop assigned nothing
             har == IF d < 5 THEN d + 1 ELSE 5
         IN  << [ time_order |-> e.time_order,
                  course     |-> [e.course EXCEPT !.hari = har] ] >>
             \o PackDays(Tail(sorted), ld, d, max_sks)

\* the day-assigned entries of one group, in day_order
DayAssigned(position, courses, key) ==
    LET sorted == SortBy(Grouped(position, courses, key), "day_order")
    IN  PackDays(sorted, [d \in 1..5 |-> 0], 0, MaxSks(Len(sorted)))

\* key of the second grouping
DayKey(course) ==
    << course.prodi, course.semester, course.id_kelas, course.id_waktu, course.hari >>

DayKeys(position, courses) ==
    UNION { { DayKey(DayAssigned(position, courses, key)[i].course) :
                i \in 1..Len(DayAssigned(position, courses, key)) } :
            key \in GroupKeys(position, courses) }

\* by_day[dkey]: every entry of a day key comes from one group, pushed in that
\* group's day_order
ByDay(position, courses, dkey) ==
    SelectSeq(DayAssigned(position, courses, << dkey[1], dkey[2], dkey[3], dkey[4] >>),
              LAMBDA e : DayKey(e.course) = dkey)

\* session window of a band
TimeRange(id_waktu) ==
    CASE id_waktu = 1 -> << 480, 720 >>
      [] id_waktu = 2 -> << 1080, 1320 >>
      [] OTHER        -> << 480, 720 >>

\* PackTimes without the reset: a course that does not fit runs past the window
RECURSIVE PackTimesNoReset(_, _, _, _)
PackTimesNoReset(entries, current_time, start, end) ==
    IF entries = <<>> THEN <<>>
    ELSE LET c        == Head(entries).course
             duration == c.sks * 40
         IN  << [c EXCEPT !.jam_mulai = current_time,
                          !.jam_akhir = current_time + duration] >>
             \o PackTimesNoReset(Tail(entries), current_time + duration, start, end)

\* time assignment of one sorted day group
RECURSIVE PackTimes(_, _, _, _)
PackTimes(entries, current_time, start, end) ==
    IF entries = <<>> THEN <<>>
    ELSE LET c        == Head(entries).course
             duration == c.sks * 40
             t        == IF current_time + duration > end THEN start ELSE current_time
         IN  << [c EXCEPT !.jam_mulai = t, !.jam_akhir = t + duration] >>
             \o PackTimes(Tail(entries), t + duration, start, end)

Timed(position, courses, dkey) ==
    LET range == TimeRange(dkey[4])
    IN  PackTimes(SortBy(ByDay(position, courses, dkey), "time_order"),
                  range[1], range[1], range[2])

\* the timetable when the map by_day hands out its keys in the order `order`
position_to_schedule(position, courses, order) ==
    Concat([ i \in 1..Len(order) |-> Timed(position, courses, order[i]) ])

\* the iteration orders the hash map by_day can take
HashOrders(position, courses) == Orders(DayKeys(position, courses))

(***************************************************************************)
(* Evaluator: FitnessCalculator                                            *)
(***************************************************************************)
is_overlap(a, b) == a.jam_mulai < b.jam_akhir /\ b.jam_mulai < a.jam_akhir

\* the test that makes a same-day overlapping pair a conflict
same_ruangan_kelas(a, b) == a.ruangan = b.ruangan /\ a.id_kelas = b.id_kelas

same_dosen(a, b) == a.id_dosen = b.id_dosen

\* the keys inserted into processed_pairs: one per conflicting pair, a pair whose
\* key is already present being skipped
ProcessedPairs(schedule) ==
    { << Min2(schedule[i].id_jadwal, schedule[j].id_jadwal),
         Max2(schedule[i].id_jadwal, schedule[j].id_jadwal) >> :
        << i, j >> \in { p \in (1..Len(schedule)) \X (1..Len(schedule)) :
                           /\ p[1] < p[2]
                           /\ schedule[p[1]].hari = schedule[p[2]].hari
                           /\ is_overlap(schedule[p[1]], schedule[p[2]])
                           /\ \/ same_ruangan_kelas(schedule[p[1]], schedule[p[2]])
                              \/ same_dosen(schedule[p[1]], schedule[p[2]]) } }

\* key of a pair in processed_pairs
PairKey(a, b) == << Min2(a.id_jadwal, b.id_jadwal), Max2(a.id_jadwal, b.id_jadwal) >>

\* ConflictLoop counting a pair whose key is already in processed_pairs again
RECURSIVE ConflictLoopNoDedupe(_, _, _, _, _)
ConflictLoopNoDedupe(schedule, i, j, processed_pairs, total_penalty) ==
    IF i > Len(schedule) THEN total_penalty
    ELSE IF j > Len(schedule)
    THEN ConflictLoopNoDedupe(schedule, i + 1, i + 2, processed_pairs, total_penalty)
    ELSE LET a == schedule[i]
             b == schedule[j]
         IN  IF \/ a.hari # b.hari
                \/ ~is_overlap(a, b)
                \/ ~(same_ruangan_kelas(a, b) \/ same_dosen(a, b))
             THEN ConflictLoopNoDedupe(schedule, i, j + 1, processed_pairs, total_penalty)
             ELSE ConflictLoopNoDedupe(schedule, i, j + 1,
                     processed_pairs \cup { PairKey(a, b) }, total_penalty + 100)

\* the nested loops of detect_conflicts from the pair (i, j) on
RECURSIVE ConflictLoop(_, _, _, _, _)
ConflictLoop(schedule, i, j, processed_pairs, total_penalty) ==
    IF i > Len(schedule) THEN total_penalty
    ELSE IF j > Len(schedule)
    THEN ConflictLoop(schedule, i + 1, i + 2, processed_pairs, total_penalty)
    ELSE LET a == schedule[i]
             b == schedule[j]
         IN  IF \/ a.hari # b.hari
                \/ ~is_overlap(a, b)
                \/ ~(same_ruangan_kelas(a, b) \/ same_dosen(a, b))
                \/ PairKey(a, b) \in processed_pairs
             THEN ConflictLoop(schedule, i, j + 1, processed_pairs, total_penalty)
             ELSE ConflictLoop(schedule, i, j + 1,
                     processed_pairs \cup { PairKey(a, b) }, total_penalty + 100)

detect_conflicts(schedule) == ConflictLoop(schedule, 1, 2, {}, 0)

\* key of the SKS count of check_schedule_distribution
SksKey(course) == << course.id_waktu, course.ruangan, course.hari >>

SksCount(schedule, key) ==
    SumSeq([ i \in 1..Len(schedule) |->
               IF SksKey(schedule[i]) = key THEN schedule[i].sks ELSE 0 ])

RECURSIVE SumOver(_, _)
SumOver(S, f) ==
    IF S = {} THEN 0
    ELSE LET k == CHOOSE x \in S : TRUE IN f[k] + SumOver(S \ {k}, f)

check_schedule_distribution(schedule) ==
    LET keys    == { SksKey(schedule[i]) : i \in 1..Len(schedule) }
        penalty == [ k \in keys |->
                       IF SksCount(schedule, k) > 6
                       THEN 100 * (SksCount(schedule, k) - 6) ELSE 0 ]
    IN  SumOver(keys, penalty)

\* FitnessCalculator::new: the table keyed by id_dosen, a later entry of the
\* list replacing an earlier one of the same lecturer
HasPreference(time_preferences, id_dosen) ==
    \E i \in 1..Len(time_preferences) : time_preferences[i].id_dosen = id_dosen

GetPreference(time_preferences, id_dosen) ==
    LET last == CHOOSE i \in 1..Len(time_preferences) :
                  /\ time_preferences[i].id_dosen = id_dosen
                  /\ \A j \in (i + 1)..Len(time_preferences) :
                        time_preferences[j].id_dosen # id_dosen
    IN  time_preferences[last]

\* the two `match hari_idx` tables
waktu_ok(pref, course) ==
    LET hari_idx == course.hari - 1
    IN  IF course.jam_mulai < 1080
        THEN CASE hari_idx = 0 -> pref.senin_pagi
               [] hari_idx = 1 -> pref.selasa_pagi
               [] hari_idx = 2 -> pref.rabu_pagi
               [] hari_idx = 3 -> pref.kamis_pagi
               [] hari_idx = 4 -> pref.jumat_pagi
               [] OTHER        -> FALSE
        ELSE CASE hari_idx = 0 -> pref.senin_malam
               [] hari_idx = 1 -> pref.selasa_malam
               [] hari_idx = 2 -> pref.rabu_malam
               [] hari_idx = 3 -> pref.kamis_malam
               [] hari_idx = 4 -> pref.jumat_malam
               [] OTHER        -> FALSE

\* PreferencePenalty with the weight 100 of ScheduleChecker::check_preferences
PreferencePenalty100(time_preferences, course) ==
    IF HasPreference(time_preferences, course.id_dosen)
    THEN IF ~waktu_ok(GetPreference(time_preferences, course.id_dosen), course)
         THEN 100 ELSE 0
    ELSE 0

\* penalty added for one course by the loop of check_preferences
PreferencePenalty(time_preferences, course) ==
    IF HasPreference(time_preferences, course.id_dosen)
    THEN IF ~waktu_ok(GetPreference(time_preferences, course.id_dosen), course)
         THEN 300 ELSE 0
    ELSE 0

check_preferences(time_preferences, schedule) ==
    SumSeq([ i \in 1..Len(schedule) |->
               PreferencePenalty(time_preferences, schedule[i]) ])

calculate_fitness(time_preferences, schedule) ==
    detect_conflicts(schedule) + check_schedule_distribution(schedule)
        + check_preferences(time_preferences, schedule)

\* PSO::evaluate_position, by_day handing out its keys in the order `order`
evaluate_position(position, courses, time_preferences, order) ==
    calculate_fitness(time_preferences, position_to_schedule(position, courses, order))

(***************************************************************************)
(* Inputs of the bounded checks                                            *)
(***************************************************************************)
\* the scores a position component can take: 0, 1/Scale, ..., 1
Scores == 0..Scale

DosenIds == {1, 2}

SksValues == {3, 4, 5, 7}

\* (prodi, id_kelas, id_waktu): a class, the same class number in another
\* study program, another class of the program, and the class in the evening band
ClassChoices == { << 1, 1, 1 >>, << 2, 1, 1 >>, << 1, 2, 1 >>, << 1, 1, 2 >> }

CourseRequest(id, id_dosen, class, sks) ==
    [ id_jadwal |-> id, id_matkul |-> id, id_dosen |-> id_dosen,
      id_waktu  |-> class[3], id_kelas |-> class[2], semester |-> 1,
      sks       |-> sks, prodi |-> class[1] ]

\* course lists of n courses with schedule ids 1..n
CourseLists(n) ==
    { [ i \in 1..n |-> CourseRequest(i, f[i][1], f[i][2], f[i][3]) ] :
        f \in [ 1..n -> DosenIds \X ClassChoices \X SksValues ] }

\* a TimePreferenceRequest allowing the mornings of `pagi` and the evenings of `malam`
TimePreferenceRequest(id_dosen, pagi, malam) ==
    [ id_dosen |-> id_dosen,
      senin_pagi  |-> 1 \in pagi, senin_malam  |-> 1 \in malam,
      selasa_pagi |-> 2 \in pagi, selasa_malam |-> 2 \in malam,
      rabu_pagi   |-> 3 \in pagi, rabu_malam   |-> 3 \in malam,
      kamis_pagi  |-> 4 \in pagi, kamis_malam  |-> 4 \in malam,
      jumat_pagi  |-> 5 \in pagi, jumat_malam  |-> 5 \in malam ]

PreferenceTables ==
    { << >>,
      << TimePreferenceRequest(1, {2, 3, 4, 5}, {1, 2, 3, 4}) >>,
      << TimePreferenceRequest(1, {}, 1..5), TimePreferenceRequest(2, {1}, {}) >>,
      << TimePreferenceRequest(2, {}, {}), TimePreferenceRequest(2, 1..5, {1, 5}) >> }

(***************************************************************************)
(* Inputs of the runs                                                      *)
(***************************************************************************)
\* course_csv of the runs: two courses of one class, 4 SKS each, so that the
\* first in day_order is taught on Monday and the other on Tuesday
RunCourses ==
    << CourseRequest(1, 1, << 1, 1, 1 >>, 4), CourseRequest(2, 2, << 1, 1, 1 >>, 4) >>

\* the course lists of the runs: none, or those two courses
RunCourseLists == { << >>, RunCourses }

\* preference_csv of the runs.  Lecturer 1 refuses Monday morning.  In the first
\* table lecturer 2 refuses Tuesday morning (penalty 600 or 0), in the second
\* every morning but Tuesday's and lecturer 1 Tuesday too (penalty 300 or 600).
RunPreferenceTables ==
    { << TimePreferenceRequest(1, {2, 3, 4, 5}, 1..5),
         TimePreferenceRequest(2, {1, 3, 4, 5}, 1..5) >>,
      << TimePreferenceRequest(1, {3, 4, 5}, 1..5),
         TimePreferenceRequest(2, {2}, 1..5) >> }

\* PsoParameters: the weights of the velocity update
inertia_weight == 1

cognitive_weight == 2

social_weight == 2

\* the PsoParameters of the runs (the weights are the definitions above)
ParameterChoices ==
    { q \in [ swarm_size : 0..MaxParticles, max_iterations : 0..MaxIterations,
              num_runs : 0..MaxRuns ] : q.swarm_size * q.num_runs <= MaxParticles }

(***************************************************************************)
(* State                                                                   *)
(***************************************************************************)
VARIABLES
    \* --- one decoder / evaluator call chain (SpecDecode) ---
    d_pc,          \* "input", "decoded", "again", "evaluated"
    d_courses,     \* courses: &[CourseRequest]
    d_position,    \* position: &[f32]
    d_position2,   \* position of a call on another vector
    d_schedule,    \* result of the first position_to_schedule call
    d_schedule2,   \* result of a second call on the same arguments
    d_prefs,       \* time_preferences of the FitnessCalculator
    d_penalty,     \* the three penalties and their sum
    d_penalty2,    \* the penalties of d_schedule2
    \* --- process_pso (lib.rs) ---
    c_pc,                   \* "start", "loop", "optimize", "returned", "done"
    slot,                   \* AppState.stop_flag: is a flag stored (Some) or not (None)
    stop_flag,              \* the AtomicBool of the invocation
    courses,                \* parsed course_csv
    time_preferences,       \* parsed preference_csv
    params,                 \* PsoParameters: swarm_size, max_iterations, num_runs
    i,                      \* run index of the for loop
    best_overall_schedule,  \* Option<Vec<OptimizedCourse>>: << >> is None, << s >> is Some(s)
    best_overall_fitness,
    all_best_fitness,       \* the run log
    result,                 \* the JSON value returned, << >> before the return
    \* --- PSO::optimize (optimizer.rs) ---
    e_pc,                   \* "idle", "check", "evaluate", "gbest", "move", "emit", "final"
    iteration,              \* loop variable of the main loop
    particles,
    pending,                \* particles the current parallel phase has not yet visited
    global_best_position,
    global_best_fitness,
    emitted,                \* the optimization-progress events sent to the window
    returned,               \* (best_position, fitness) handed back to process_pso
    \* --- concurrent process_pso invocations (SpecCalls) ---
    calls,                  \* per invocation: position, its AtomicBool, run index, iteration
    state_stop_flag         \* AppState.stop_flag: 0 is None, k is Some(flag of invocation k)

dvars == << d_pc, d_courses, d_position, d_position2, d_schedule, d_schedule2, d_prefs, d_penalty,
           d_penalty2 >>

cvars == << c_pc, slot, stop_flag, courses, time_preferences, params, i,
            best_overall_schedule, best_overall_fitness, all_best_fitness, result >>

evars == << e_pc, iteration, particles, pending, global_best_position,
            global_best_fitness, emitted, returned >>

svars == << calls, state_stop_flag >>

vars == << dvars, cvars, evars, svars >>

\* f32::INFINITY, above every penalty
INFINITY == 1000000

\* f32::NAN: a value that is no penalty
NaN == -1

\* f32::is_nan
is_nan(x) == x = NaN

\* `a < b` on f32: false when either side is NaN
Less(a, b) == ~is_nan(a) /\ ~is_nan(b) /\ a < b

NoPenalty == [ conflict |-> 0, distribution |-> 0, preference |-> 0, total |-> 0 ]

DecodeIdle ==
    /\ d_pc = "off"
    /\ d_courses = << >>
    /\ d_position = << >>
    /\ d_position2 = << >>
    /\ d_schedule = << >>
    /\ d_schedule2 = << >>
    /\ d_prefs = << >>
    /\ d_penalty = NoPenalty
    /\ d_penalty2 = NoPenalty

\* no process_pso invocation of SpecCalls has started
NoCall == [ pc |-> "idle", stop_flag |-> FALSE, num_runs |-> 0, max_iterations |-> 0,
            i |-> 0, iteration |-> 0 ]

CallsIdle ==
    /\ calls = [ k \in 1..MaxCalls |-> NoCall ]
    /\ state_stop_flag = 0

NoParams == [ swarm_size |-> 0, max_iterations |-> 0, num_runs |-> 0 ]

\* process_pso is not invoked
ControllerIdle ==
    /\ c_pc = "off"
    /\ slot = "None"
    /\ stop_flag = FALSE
    /\ courses = << >>
    /\ time_preferences = << >>
    /\ params = NoParams
    /\ i = 0
    /\ best_overall_schedule = << >>
    /\ best_overall_fitness = INFINITY
    /\ all_best_fitness = << >>
    /\ result = << >>

RunIdle ==
    /\ ControllerIdle
    /\ e_pc = "idle"
    /\ iteration = 0
    /\ particles = << >>
    /\ pending = {}
    /\ global_best_position = << >>
    /\ global_best_fitness = INFINITY
    /\ emitted = << >>
    /\ returned = << >>

(***************************************************************************)
(* SpecDecode: the decoder and the evaluator as pure functions             *)
(***************************************************************************)
InitDecode ==
    /\ d_pc = "input"
    /\ \E n \in 1..MaxCourses :
         /\ d_courses \in CourseLists(n)
         /\ d_position \in [ 1..(2 * n) -> Scores ]
    /\ d_position2 = << >>
    /\ d_schedule = << >>
    /\ d_schedule2 = << >>
    /\ d_prefs = << >>
    /\ d_penalty = NoPenalty
    /\ d_penalty2 = NoPenalty
    /\ RunIdle
    /\ CallsIdle

\* PSO::position_to_schedule(&position, &courses)
Decode ==
    /\ d_pc = "input"
    /\ \E order \in HashOrders(d_position, d_courses) :
         d_schedule' = position_to_schedule(d_position, d_courses, order)
    /\ d_pc' = "decoded"
    /\ UNCHANGED << d_courses, d_position, d_position2, d_schedule2, d_prefs, d_penalty, d_penalty2 >>
    /\ UNCHANGED << cvars, evars, svars >>

\* a second call with the same arguments
DecodeAgain ==
    /\ d_pc = "decoded"
    /\ \E order \in HashOrders(d_position, d_courses) :
         d_schedule2' = position_to_schedule(d_position, d_courses, order)
    /\ d_pc' = "again"
    /\ UNCHANGED << d_courses, d_position, d_position2, d_schedule, d_prefs, d_penalty, d_penalty2 >>
    /\ UNCHANGED << cvars, evars, svars >>

\* the penalties calculate_fitness computes and their sum, which it returns
Penalties(prefs, schedule) ==
    [ conflict     |-> detect_conflicts(schedule),
      distribution |-> check_schedule_distribution(schedule),
      preference   |-> check_preferences(prefs, schedule),
      total        |-> calculate_fitness(prefs, schedule) ]

\* FitnessCalculator::new(time_preferences).calculate_fitness(&schedule)
Evaluate ==
    /\ d_pc = "decoded"
    /\ \E prefs \in PreferenceTables :
         /\ d_prefs' = prefs
         /\ d_penalty' = Penalties(prefs, d_schedule)
    /\ d_pc' = "evaluated"
    /\ UNCHANGED << d_courses, d_position, d_position2, d_schedule, d_schedule2, d_penalty2 >>
    /\ UNCHANGED << cvars, evars, svars >>

NextDecode == Decode \/ DecodeAgain \/ Evaluate

SpecDecode == InitDecode /\ [][NextDecode]_vars

(***************************************************************************)
(* SpecPack: the decoder on one group of up to MaxGroup courses            *)
(***************************************************************************)
\* session bands: morning, evening, and one the decoder does not recognise
PackBands == {1, 2, 3}

PackSks == {2, 3, 7}

\* course lists of n courses of one (prodi, semester, class, band) group
PackCourseLists(n) ==
    { [ k \in 1..n |-> CourseRequest(k, 1, << 1, 1, f[1] >>, f[2][k]) ] :
        f \in PackBands \X [ 1..n -> PackSks ] }

\* position vectors of n courses that differ in their day-order scores only, or
\* in their time-order scores only
PackPositions(n) ==
    { x \in [ 1..(2 * n) -> Scores ] :
        \/ \A k \in 1..n : x[2 * k] = 0
        \/ \A k \in 1..n : x[2 * k - 1] = 0 }

InitPack ==
    /\ d_pc = "input"
    /\ \E n \in 1..MaxGroup :
         /\ d_courses \in PackCourseLists(n)
         /\ d_position \in PackPositions(n)
    /\ d_position2 = << >>
    /\ d_schedule = << >>
    /\ d_schedule2 = << >>
    /\ d_prefs = << >>
    /\ d_penalty = NoPenalty
    /\ d_penalty2 = NoPenalty
    /\ RunIdle
    /\ CallsIdle

NextPack == Decode

SpecPack == InitPack /\ [][NextPack]_vars

(***************************************************************************)
(* SpecOrder: the decoder on two position vectors                          *)
(***************************************************************************)
\* course lists of two courses of one lecturer: of one class or of two study
\* programs, of 3, 4 or 7 SKS
OrderCourseLists ==
    { << CourseRequest(1, 1, << 1, 1, 1 >>, f[1]), CourseRequest(2, 1, << f[3], 1, 1 >>, f[2]) >> :
        f \in {3, 4, 7} \X {3, 4, 7} \X {1, 2} }

InitOrder ==
    /\ d_pc = "input"
    /\ d_courses \in OrderCourseLists
    /\ d_position \in [ 1..(2 * MaxCourses) -> Scores ]
    /\ Len(d_position) = 2 * Len(d_courses)
    /\ d_position2 = << >>
    /\ d_schedule = << >>
    /\ d_schedule2 = << >>
    /\ d_prefs = << >>
    /\ d_penalty = NoPenalty
    /\ d_penalty2 = NoPenalty
    /\ RunIdle
    /\ CallsIdle

\* PSO::position_to_schedule(&position2, &courses) for another position vector
DecodeOther ==
    /\ d_pc = "decoded"
    /\ \E position2 \in [ 1..Len(d_position) -> Scores ] :
         /\ position2 # d_position
         /\ d_position2' = position2
         /\ \E order \in HashOrders(position2, d_courses) :
              d_schedule2' = position_to_schedule(position2, d_courses, order)
    /\ d_pc' = "other"
    /\ UNCHANGED << d_courses, d_position, d_schedule, d_prefs, d_penalty, d_penalty2 >>
    /\ UNCHANGED << cvars, evars, svars >>

NextOrder == Decode \/ DecodeOther

SpecOrder == InitOrder /\ [][NextOrder]_vars

(***************************************************************************)
(* SpecEvaluate: the evaluator on timetables of its own                    *)
(***************************************************************************)
\* an OptimizedCourse of 3 SKS of the morning band, taught at jam_mulai
ScheduledCourse(id, id_dosen, id_kelas, hari, jam_mulai) ==
    [ id_jadwal |-> id,        id_matkul |-> id,
      id_dosen  |-> id_dosen,  id_kelas  |-> id_kelas,
      id_waktu  |-> 1,         hari      |-> hari,
      jam_mulai |-> jam_mulai, jam_akhir |-> jam_mulai + 120,
      ruangan   |-> 0,         semester  |-> 1,
      sks       |-> 3,         prodi     |-> 1 ]

\* the courses of those timetables: two schedule ids (a list may repeat one),
\* two lecturers, two classes, Monday or Tuesday, 08:00 or 10:00
ScheduledCourses ==
    { ScheduledCourse(f[1], f[2], f[3], f[4], f[5]) :
        f \in {1, 2} \X DosenIds \X {1, 2} \X {1, 2} \X {480, 600} }

Timetables == UNION { [ 1..n -> ScheduledCourses ] : n \in 0..MaxTimetable }

\* the schedule with its courses in the order perm
Reordered(schedule, perm) == [ k \in 1..Len(schedule) |-> schedule[perm[k]] ]

InitEvaluate ==
    /\ d_pc = "timetable"
    /\ d_courses = << >>
    /\ d_position = << >>
    /\ d_position2 = << >>
    /\ d_schedule \in Timetables
    /\ d_schedule2 = << >>
    /\ d_prefs = << >>
    /\ d_penalty = NoPenalty
    /\ d_penalty2 = NoPenalty
    /\ RunIdle
    /\ CallsIdle

\* FitnessCalculator::new(time_preferences).calculate_fitness(&schedule)
EvaluateTimetable ==
    /\ d_pc = "timetable"
    /\ \E prefs \in PreferenceTables :
         /\ d_prefs' = prefs
         /\ d_penalty' = Penalties(prefs, d_schedule)
    /\ d_pc' = "evaluated"
    /\ UNCHANGED << d_courses, d_position, d_position2, d_schedule, d_schedule2, d_penalty2 >>
    /\ UNCHANGED << cvars, evars, svars >>

\* the same calculator called on the same courses in another order
EvaluateReordered ==
    /\ d_pc = "evaluated"
    /\ \E perm \in Orders(1..Len(d_schedule)) :
         /\ d_schedule2' = Reordered(d_schedule, perm)
         /\ d_penalty2' = Penalties(d_prefs, Reordered(d_schedule, perm))
    /\ d_pc' = "reordered"
    /\ UNCHANGED << d_courses, d_position, d_position2, d_schedule, d_prefs, d_penalty >>
    /\ UNCHANGED << cvars, evars, svars >>

NextEvaluate == EvaluateTimetable \/ EvaluateReordered

SpecEvaluate == InitEvaluate /\ [][NextEvaluate]_vars

(***************************************************************************)
(* Particle                                                                *)
(***************************************************************************)
\* the fixed-point value of a product of two or three factors one of which is
\* an integer weight: x / Scale, rounded towards zero
Fix(x) == IF x >= 0 THEN x \div Scale ELSE -((-x) \div Scale)

\* rng.random_range(0.0..1.0) and rng.random::<f32>(): a value of [0, 1)
UnitDraws == 0..(Scale - 1)

\* rng.random_range(-0.1..0.1)
VelocityDraws == { v \in (-Scale)..Scale : -Scale <= 10 * v /\ 10 * v < Scale }

Zeros(dimension) == [ k \in 1..dimension |-> 0 ]

\* Particle::new with the drawn position and velocity
NewParticle(position, velocity) ==
    [ position       |-> position,
      velocity       |-> velocity,
      pbest_position |-> Zeros(Len(position)),
      pbest_fitness  |-> INFINITY,
      fitness        |-> INFINITY ]

\* the particles Particle::new(dimension) can return
NewParticles(dimension) ==
    { NewParticle(x, v) : x \in [ 1..dimension -> UnitDraws ],
                          v \in [ 1..dimension -> VelocityDraws ] }

\* one round of the loop of Particle::update_velocity: the new velocity[k] for
\* the draws r1, r2
velocity_component(particle, gbest, k, r1, r2) ==
    LET cognitive == Fix(cognitive_weight * r1
                           * (particle.pbest_position[k] - particle.position[k]))
        social    == Fix(social_weight * r2 * (gbest[k] - particle.position[k]))
    IN  Clamp(inertia_weight * particle.velocity[k] + cognitive + social,
              -(Scale \div 2), Scale \div 2)

\* Particle::update_velocity, the new velocities being `velocity`
update_velocity(particle, velocity) == [ particle EXCEPT !.velocity = velocity ]

\* the velocities update_velocity can produce: every component is drawn on its own
Velocities(particle, gbest) ==
    LET drawn == [ k \in 1..Len(particle.velocity) |->
                     { velocity_component(particle, gbest, k, r1, r2) :
                         r1 \in UnitDraws, r2 \in UnitDraws } ]
    IN  { v \in [ 1..Len(particle.velocity) -> (-(Scale \div 2))..(Scale \div 2) ] :
            \A k \in 1..Len(particle.velocity) : v[k] \in drawn[k] }

\* Particle::update_position
update_position(particle) ==
    [ particle EXCEPT !.position =
        [ k \in 1..Len(particle.position) |->
            Clamp(particle.position[k] + particle.velocity[k], 0, Scale) ] ]

\* the outcomes of update_velocity followed by update_position, over the draws
Moves(particle, gbest) ==
    { update_position(update_velocity(particle, v)) : v \in Velocities(particle, gbest) }

\* update_personal_best without the comparison: the last fitness always wins
update_personal_best_always(particle) ==
    [ particle EXCEPT !.pbest_fitness = particle.fitness,
                      !.pbest_position = particle.position ]

\* update_personal_best that records the fitness and keeps the old position
update_personal_best_fitness_only(particle) ==
    IF Less(particle.fitness, particle.pbest_fitness) /\ ~is_nan(particle.fitness)
    THEN [ particle EXCEPT !.pbest_fitness = particle.fitness ]
    ELSE particle

\* Particle::update_personal_best
update_personal_best(particle) ==
    IF Less(particle.fitness, particle.pbest_fitness) /\ ~is_nan(particle.fitness)
    THEN [ particle EXCEPT !.pbest_fitness = particle.fitness,
                           !.pbest_position = particle.position ]
    ELSE particle

(***************************************************************************)
(* PSO engine                                                              *)
(***************************************************************************)
\* dimension of PSO::new and initialize_swarm
Dimension == Len(courses) * 2

\* the positions a particle of a run on the course list cs can take
RunPositions(cs) == [ 1..(Len(cs) * 2) -> Scores ]

\* PSO::position_to_schedule on the courses of the runs, tabulated: the
\* timetables it can return for a position, one per iteration order of by_day
RunSchedules ==
    [ cs \in RunCourseLists |->
        [ x \in RunPositions(cs) |->
            { position_to_schedule(x, cs, order) : order \in HashOrders(x, cs) } ] ]

\* PSO::evaluate_position on the courses of the runs, tabulated: the values it
\* can return for a preference table and a position
RunFitnesses ==
    [ cs \in RunCourseLists |->
        [ prefs \in RunPreferenceTables |->
            [ x \in RunPositions(cs) |->
                { evaluate_position(x, cs, prefs, order) :
                    order \in HashOrders(x, cs) } ] ] ]

\* the values PSO::evaluate_position can return for a position of a run
Fitnesses(position) == RunFitnesses[courses][time_preferences][position]

\* the scan with a comparison that orders NaN below every fitness and without
\* the is_nan test
RECURSIVE ScanGlobalBestOrdersNaN(_, _, _)
ScanGlobalBestOrdersNaN(ps, k, best) ==
    IF k > Len(ps) THEN best
    ELSE ScanGlobalBestOrdersNaN(ps, k + 1,
            IF ps[k].pbest_fitness < best[2]
            THEN << ps[k].pbest_position, ps[k].pbest_fitness >>
            ELSE best)

\* the scan of PSO::update_global_best over particles k..n; best is the pair
\* (global_best_position, global_best_fitness)
RECURSIVE ScanGlobalBest(_, _, _)
ScanGlobalBest(ps, k, best) ==
    IF k > Len(ps) THEN best
    ELSE ScanGlobalBest(ps, k + 1,
            IF Less(ps[k].pbest_fitness, best[2]) /\ ~is_nan(ps[k].pbest_fitness)
            THEN << ps[k].pbest_position, ps[k].pbest_fitness >>
            ELSE best)

\* an early-stopping test only a negative fitness passes
IsOptimalNegative(fitness) == fitness < 0

\* the early-stopping test `global_best_fitness < 0.001`
IsOptimal(fitness) == ~is_nan(fitness) /\ fitness * 1000 < 1

\* OptimizationProgress sent by emit_progress
Progress(iter, log, is_finished) ==
    [ iteration        |-> iter,
      all_best_fitness |-> log,
      best_fitness     |-> global_best_fitness,
      current_run      |-> i,
      is_finished      |-> is_finished ]

(***************************************************************************)
(* Spec: process_pso, the runs it drives, and stop_pso                     *)
(***************************************************************************)
Init ==
    /\ DecodeIdle
    /\ c_pc = "start"
    /\ slot = "None"
    /\ stop_flag = FALSE
    /\ courses = << >>
    /\ time_preferences = << >>
    /\ params = NoParams
    /\ i = 0
    /\ best_overall_schedule = << >>
    /\ best_overall_fitness = INFINITY
    /\ all_best_fitness = << >>
    /\ result = << >>
    /\ e_pc = "idle"
    /\ iteration = 0
    /\ particles = << >>
    /\ pending = {}
    /\ global_best_position = << >>
    /\ global_best_fitness = INFINITY
    /\ emitted = << >>
    /\ returned = << >>
    /\ CallsIdle

\* stop_pso: sets the flag stored in the slot, if there is one
StopPso ==
    /\ slot = "Some"
    /\ stop_flag' = TRUE
    /\ UNCHANGED << c_pc, slot, courses, time_preferences, params, i, best_overall_schedule,
                    best_overall_fitness, all_best_fitness, result >>
    /\ UNCHANGED << dvars, evars, svars >>

\* process_pso up to the for loop: the inputs are parsed, a fresh flag is stored
ProcessStart ==
    /\ c_pc = "start"
    /\ courses' \in RunCourseLists
    /\ time_preferences' \in RunPreferenceTables
    /\ params' \in ParameterChoices
    /\ stop_flag' = FALSE
    /\ slot' = "Some"
    /\ best_overall_schedule' = << >>
    /\ best_overall_fitness' = INFINITY
    /\ all_best_fitness' = << >>
    /\ i' = 0
    /\ c_pc' = "loop"
    /\ UNCHANGED << result >>
    /\ UNCHANGED << dvars, evars, svars >>

\* one more round of the for loop: PSO::new, then optimize up to its main loop
\* (reset_optimization, initialize_swarm)
StartRun ==
    /\ c_pc = "loop"
    /\ i < params.num_runs
    /\ particles' \in [ 1..params.swarm_size -> NewParticles(Dimension) ]
    /\ global_best_fitness' = INFINITY
    /\ global_best_position' = Zeros(Dimension)
    /\ iteration' = 0
    /\ pending' = {}
    /\ emitted' = << >>
    /\ returned' = << >>
    /\ e_pc' = "check"
    /\ c_pc' = "optimize"
    /\ UNCHANGED << slot, stop_flag, courses, time_preferences,
                    params, i, best_overall_schedule,
                    best_overall_fitness, all_best_fitness, result >>
    /\ UNCHANGED << dvars, svars >>

\* a main loop that never looks at the flag
StopNeverRequested == FALSE

\* stop_flag.load(Ordering::Relaxed) at the head of the main loop
StopRequested == stop_flag

\* head of the main loop: the range is exhausted
LoopExit ==
    /\ e_pc = "check"
    /\ iteration >= params.max_iterations
    /\ e_pc' = "final"
    /\ UNCHANGED << iteration, particles, pending, global_best_position,
                    global_best_fitness, emitted, returned >>
    /\ UNCHANGED << dvars, cvars, svars >>

\* head of the main loop: the stop flag is set
LoopBreak ==
    /\ e_pc = "check"
    /\ iteration < params.max_iterations
    /\ StopRequested
    /\ e_pc' = "final"
    /\ UNCHANGED << iteration, particles, pending, global_best_position,
                    global_best_fitness, emitted, returned >>
    /\ UNCHANGED << dvars, cvars, svars >>

\* LoopEnter with the global best forgotten at the start of every iteration
LoopEnterForgetsBest ==
    /\ e_pc = "check"
    /\ iteration < params.max_iterations
    /\ ~StopRequested
    /\ e_pc' = "evaluate"
    /\ pending' = 1..Len(particles)
    /\ global_best_fitness' = INFINITY
    /\ global_best_position' = Zeros(Dimension)
    /\ UNCHANGED << iteration, particles, emitted, returned >>
    /\ UNCHANGED << dvars, cvars, svars >>

\* LoopEnter with the range 0..=max_iterations
LoopEnterInclusive ==
    /\ e_pc = "check"
    /\ iteration <= params.max_iterations
    /\ ~StopRequested
    /\ e_pc' = "evaluate"
    /\ pending' = 1..Len(particles)
    /\ UNCHANGED << iteration, particles, global_best_position,
                    global_best_fitness, emitted, returned >>
    /\ UNCHANGED << dvars, cvars, svars >>

\* head of the main loop: the iteration starts, evaluate_all_particles hands the
\* particles to the parallel workers
LoopEnter ==
    /\ e_pc = "check"
    /\ iteration < params.max_iterations
    /\ ~StopRequested
    /\ e_pc' = "evaluate"
    /\ pending' = 1..Len(particles)
    /\ UNCHANGED << iteration, particles, global_best_position,
                    global_best_fitness, emitted, returned >>
    /\ UNCHANGED << dvars, cvars, svars >>

\* one worker of evaluate_all_particles
EvaluateParticle(p) ==
    /\ e_pc = "evaluate"
    /\ p \in pending
    /\ \E fitness \in Fitnesses(particles[p].position) :
         particles' = [ particles EXCEPT ![p] =
            update_personal_best([ particles[p] EXCEPT !.fitness = fitness ]) ]
    /\ pending' = pending \ {p}
    /\ UNCHANGED << e_pc, iteration, global_best_position, global_best_fitness,
                    emitted, returned >>
    /\ UNCHANGED << dvars, cvars, svars >>

\* update_global_best, once every worker has joined; then update_all_particles
\* hands the particles to the parallel workers
UpdateGlobalBest ==
    /\ e_pc = "evaluate"
    /\ pending = {}
    /\ LET best == ScanGlobalBest(particles, 1,
                       << global_best_position, global_best_fitness >>)
       IN  /\ global_best_position' = best[1]
           /\ global_best_fitness' = best[2]
    /\ e_pc' = "move"
    /\ pending' = 1..Len(particles)
    /\ UNCHANGED << iteration, particles, emitted, returned >>
    /\ UNCHANGED << dvars, cvars, svars >>

\* a worker of update_all_particles that leaves its particle to the other workers
UpdateParticleShared(p) ==
    /\ e_pc = "move"
    /\ p \in pending
    /\ \E moved \in Moves(particles[p], global_best_position) :
         particles' = [ particles EXCEPT ![p] = moved ]
    /\ \/ pending' = pending
       \/ pending' = pending \ {p}
    /\ UNCHANGED << e_pc, iteration, global_best_position, global_best_fitness,
                    emitted, returned >>
    /\ UNCHANGED << dvars, cvars, svars >>

\* one worker of update_all_particles
UpdateParticle(p) ==
    /\ e_pc = "move"
    /\ p \in pending
    /\ \E moved \in Moves(particles[p], global_best_position) :
         particles' = [ particles EXCEPT ![p] = moved ]
    /\ pending' = pending \ {p}
    /\ UNCHANGED << e_pc, iteration, global_best_position, global_best_fitness,
                    emitted, returned >>
    /\ UNCHANGED << dvars, cvars, svars >>

\* emit_progress of the iteration, the global best is not yet optimal: next round
NextIteration ==
    /\ e_pc = "move"
    /\ pending = {}
    /\ ~IsOptimal(global_best_fitness)
    /\ emitted' = Append(emitted, Progress(iteration + 1, all_best_fitness, FALSE))
    /\ iteration' = iteration + 1
    /\ e_pc' = "check"
    /\ UNCHANGED << particles, pending, global_best_position, global_best_fitness,
                    returned >>
    /\ UNCHANGED << dvars, cvars, svars >>

\* emit_progress of the iteration, then early stopping
EarlyStop ==
    /\ e_pc = "move"
    /\ pending = {}
    /\ IsOptimal(global_best_fitness)
    /\ emitted' = Append(emitted, Progress(iteration + 1, all_best_fitness, FALSE))
    /\ e_pc' = "final"
    /\ UNCHANGED << iteration, particles, pending, global_best_position,
                    global_best_fitness, returned >>
    /\ UNCHANGED << dvars, cvars, svars >>

\* Finish leaving a cancelled run out of the run log
FinishLogsUnlessStopped ==
    /\ e_pc = "final"
    /\ all_best_fitness' = IF stop_flag THEN all_best_fitness
                           ELSE Append(all_best_fitness, global_best_fitness)
    /\ emitted' = Append(emitted, Progress(params.max_iterations,
                                          Append(all_best_fitness, global_best_fitness), TRUE))
    /\ returned' = << global_best_position, global_best_fitness >>
    /\ e_pc' = "idle"
    /\ c_pc' = "returned"
    /\ UNCHANGED << iteration, particles, pending, global_best_position,
                    global_best_fitness >>
    /\ UNCHANGED << slot, stop_flag, courses, time_preferences,
                    params, i, best_overall_schedule,
                    best_overall_fitness, result >>
    /\ UNCHANGED << dvars, svars >>

\* Finish with the final snapshot numbered 0
FinishEmitsIterationZero ==
    /\ e_pc = "final"
    /\ all_best_fitness' = Append(all_best_fitness, global_best_fitness)
    /\ emitted' = Append(emitted, Progress(0,
                                          Append(all_best_fitness, global_best_fitness), TRUE))
    /\ returned' = << global_best_position, global_best_fitness >>
    /\ e_pc' = "idle"
    /\ c_pc' = "returned"
    /\ UNCHANGED << iteration, particles, pending, global_best_position,
                    global_best_fitness >>
    /\ UNCHANGED << slot, stop_flag, courses, time_preferences,
                    params, i, best_overall_schedule,
                    best_overall_fitness, result >>
    /\ UNCHANGED << dvars, svars >>

\* the end of optimize: the run log, the final snapshot, the return value
Finish ==
    /\ e_pc = "final"
    /\ all_best_fitness' = Append(all_best_fitness, global_best_fitness)
    /\ emitted' = Append(emitted, Progress(params.max_iterations,
                                          Append(all_best_fitness, global_best_fitness), TRUE))
    /\ returned' = << global_best_position, global_best_fitness >>
    /\ e_pc' = "idle"
    /\ c_pc' = "returned"
    /\ UNCHANGED << iteration, particles, pending, global_best_position,
                    global_best_fitness >>
    /\ UNCHANGED << slot, stop_flag, courses, time_preferences,
                    params, i, best_overall_schedule,
                    best_overall_fitness, result >>
    /\ UNCHANGED << dvars, svars >>

\* the JSON value process_pso returns
Json ==
    [ success          |-> TRUE,
      fitness          |-> best_overall_fitness,
      all_best_fitness |-> all_best_fitness,
      schedule         |-> best_overall_schedule ]

\* after optimize: the flag is set, the loop is left and the result returned
CancelReturn ==
    /\ c_pc = "returned"
    /\ stop_flag
    /\ result' = << Json >>
    /\ c_pc' = "done"
    /\ UNCHANGED << slot, stop_flag, courses, time_preferences,
                    params, i, best_overall_schedule,
                    best_overall_fitness, all_best_fitness >>
    /\ UNCHANGED << dvars, evars, svars >>

\* after optimize: the flag is not set, the run is recorded
RecordRun ==
    /\ c_pc = "returned"
    /\ ~stop_flag
    /\ \E schedule \in RunSchedules[courses][returned[1]] :
         IF returned[2] < best_overall_fitness
         THEN /\ best_overall_fitness' = returned[2]
              /\ best_overall_schedule' = << schedule >>
         ELSE UNCHANGED << best_overall_fitness, best_overall_schedule >>
    /\ i' = i + 1
    /\ c_pc' = "loop"
    /\ UNCHANGED << slot, stop_flag, courses, time_preferences,
                    params, all_best_fitness, result >>
    /\ UNCHANGED << dvars, evars, svars >>

\* the for loop is exhausted: the result is returned
Return ==
    /\ c_pc = "loop"
    /\ i >= params.num_runs
    /\ result' = << Json >>
    /\ c_pc' = "done"
    /\ UNCHANGED << slot, stop_flag, courses, time_preferences,
                    params, i, best_overall_schedule,
                    best_overall_fitness, all_best_fitness >>
    /\ UNCHANGED << dvars, evars, svars >>

EngineStep ==
    \/ LoopExit \/ LoopBreak \/ LoopEnter
    \/ \E p \in 1..MaxParticles : EvaluateParticle(p)
    \/ UpdateGlobalBest
    \/ \E p \in 1..MaxParticles : UpdateParticle(p)
    \/ NextIteration \/ EarlyStop \/ Finish

ControllerStep == ProcessStart \/ StartRun \/ CancelReturn \/ RecordRun \/ Return

Next == StopPso \/ ControllerStep \/ EngineStep

Spec == Init /\ [][Next]_vars

(***************************************************************************)
(* SpecNaN: update_personal_best and update_global_best on fitness values  *)
(* that include NaN                                                        *)
(***************************************************************************)
\* fitness values handed to the two functions
FitnessValues == { NaN, 0, 300, INFINITY }

\* positions of the particles they are handed
CornerPositions == { << 0, 0 >>, << Scale, Scale >> }

\* particles with any of those personal bests
AnyParticles ==
    { [ position       |-> x,
        velocity       |-> << 0, 0 >>,
        pbest_position |-> y,
        pbest_fitness  |-> f,
        fitness        |-> INFINITY ] :
        x \in CornerPositions, y \in CornerPositions, f \in FitnessValues }

\* a swarm in the evaluation phase of an iteration
InitNaN ==
    /\ DecodeIdle
    /\ ControllerIdle
    /\ e_pc = "evaluate"
    /\ iteration = 0
    /\ \E n \in 1..MaxParticles : particles \in [ 1..n -> AnyParticles ]
    /\ pending = 1..Len(particles)
    /\ global_best_position = << 0, 0 >>
    /\ global_best_fitness \in { 300, INFINITY }
    /\ emitted = << >>
    /\ returned = << >>
    /\ CallsIdle

\* one worker of evaluate_all_particles, the evaluation returning any of the values
EvaluateParticleTo(p) ==
    /\ e_pc = "evaluate"
    /\ p \in pending
    /\ \E fitness \in FitnessValues :
         particles' = [ particles EXCEPT ![p] =
            update_personal_best([ particles[p] EXCEPT !.fitness = fitness ]) ]
    /\ pending' = pending \ {p}
    /\ UNCHANGED << e_pc, iteration, global_best_position, global_best_fitness,
                    emitted, returned >>
    /\ UNCHANGED << dvars, cvars, svars >>

NextNaN == (\E p \in 1..MaxParticles : EvaluateParticleTo(p)) \/ UpdateGlobalBest

SpecNaN == InitNaN /\ [][NextNaN]_vars

(***************************************************************************)
(* SpecCalls: several process_pso invocations and stop_pso on the one      *)
(* AppState; of a run only the steps that read the flag are kept           *)
(***************************************************************************)
InitCalls ==
    /\ DecodeIdle
    /\ RunIdle
    /\ CallsIdle

\* process_pso up to the for loop: a fresh flag is created and stored in the
\* slot, whatever the slot held
CallStart(k) ==
    /\ calls[k].pc = "idle"
    /\ \E num_runs \in 1..MaxRuns, max_iterations \in 0..MaxIterations :
         calls' = [ calls EXCEPT ![k] =
            [ pc |-> "loop", stop_flag |-> FALSE, num_runs |-> num_runs,
              max_iterations |-> max_iterations, i |-> 0, iteration |-> 0 ] ]
    /\ state_stop_flag' = k
    /\ UNCHANGED << dvars, cvars, evars >>

\* stop_pso: sets the flag stored in the slot, if there is one
StopCalls ==
    /\ state_stop_flag # 0
    /\ calls' = [ calls EXCEPT ![state_stop_flag].stop_flag = TRUE ]
    /\ UNCHANGED << state_stop_flag, dvars, cvars, evars >>

\* one more round of the for loop: PSO::new and optimize up to its main loop
CallStartRun(k) ==
    /\ calls[k].pc = "loop"
    /\ calls[k].i < calls[k].num_runs
    /\ calls' = [ calls EXCEPT ![k].pc = "optimize", ![k].iteration = 0 ]
    /\ UNCHANGED << state_stop_flag, dvars, cvars, evars >>

\* one iteration of the main loop of optimize: the flag is not set; the loop goes
\* on or is left by early stopping
CallIterate(k) ==
    /\ calls[k].pc = "optimize"
    /\ calls[k].iteration < calls[k].max_iterations
    /\ ~calls[k].stop_flag
    /\ \E early_stop \in BOOLEAN :
         calls' = [ calls EXCEPT ![k].iteration = IF early_stop THEN @ ELSE @ + 1,
                                 ![k].pc = IF early_stop THEN "returned" ELSE @ ]
    /\ UNCHANGED << state_stop_flag, dvars, cvars, evars >>

\* the main loop of optimize is left: the range is exhausted or the flag is set
CallLeaveLoop(k) ==
    /\ calls[k].pc = "optimize"
    /\ calls[k].iteration >= calls[k].max_iterations \/ calls[k].stop_flag
    /\ calls' = [ calls EXCEPT ![k].pc = "returned" ]
    /\ UNCHANGED << state_stop_flag, dvars, cvars, evars >>

\* after optimize: break when the flag is set, else record the run
CallAfterRun(k) ==
    /\ calls[k].pc = "returned"
    /\ calls' = IF calls[k].stop_flag
                THEN [ calls EXCEPT ![k].pc = "done" ]
                ELSE [ calls EXCEPT ![k].pc = "loop", ![k].i = @ + 1 ]
    /\ UNCHANGED << state_stop_flag, dvars, cvars, evars >>

\* the for loop is exhausted: the result is returned
CallReturn(k) ==
    /\ calls[k].pc = "loop"
    /\ calls[k].i >= calls[k].num_runs
    /\ calls' = [ calls EXCEPT ![k].pc = "done" ]
    /\ UNCHANGED << state_stop_flag, dvars, cvars, evars >>

NextCalls ==
    \/ StopCalls
    \/ \E k \in 1..MaxCalls :
          \/ CallStart(k) \/ CallStartRun(k) \/ CallIterate(k)
          \/ CallLeaveLoop(k) \/ CallAfterRun(k) \/ CallReturn(k)

SpecCalls == InitCalls /\ [][NextCalls]_vars

(***************************************************************************)
(* Properties of the decoder and the evaluator (SpecDecode)                *)
(***************************************************************************)
\* the input course a scheduled course was built from: every field but the
\* four the decoder assigns
InputFields(c) ==
    [ id_jadwal |-> c.id_jadwal, id_matkul |-> c.id_matkul, id_dosen |-> c.id_dosen,
      id_waktu  |-> c.id_waktu,  id_kelas  |-> c.id_kelas,  semester |-> c.semester,
      sks       |-> c.sks,       prodi     |-> c.prodi ]

\* the timetable holds every input course exactly once, every weekday is one of
\* 1..5 and every window lasts 40 minutes per SKS
WellFormedSchedule(schedule, input) ==
    /\ Len(schedule) = Len(input)
    /\ \A k \in 1..Len(input) :
         Cardinality({ j \in 1..Len(schedule) : InputFields(schedule[j]) = input[k] }) = 1
    /\ \A j \in 1..Len(schedule) :
         /\ schedule[j].hari \in 1..5
         /\ schedule[j].jam_akhir - schedule[j].jam_mulai = 40 * schedule[j].sks

\* C1: for a course list of N courses and a position vector of length 2N the
\* decoder returns every input course exactly once, fields unchanged, each with
\* a weekday in 1..5 and jam_akhir - jam_mulai = 40 * sks.
C1_DecoderWellFormed ==
    /\ d_pc \in {"decoded", "again", "evaluated"}
         => WellFormedSchedule(d_schedule, d_courses)
    /\ d_pc = "again" => WellFormedSchedule(d_schedule2, d_courses)

\* a decoded list of two courses one of which took the Friday fallback
C1_Witness ==
    /\ d_pc = "decoded"
    /\ Len(d_position) = 2 * Len(d_courses)
    /\ Len(d_schedule) = 2
    /\ \E j \in 1..2 : d_schedule[j].hari = 5 /\ d_schedule[j].sks = 7
    /\ \E j \in 1..2 : d_schedule[j].hari = 1 /\ d_schedule[j].jam_mulai = 480

\* C2: two calls of the decoder on the same position and course list return the
\* same timetable: the same courses in the same order with the same weekday,
\* start, end and room, whatever the iteration order of the hash maps.
C2_DecoderDeterministic ==
    d_pc = "again" => d_schedule2 = d_schedule

\* the pairs of positions of the timetable that conflict by the rule of the
\* specification: same weekday, overlapping, and same lecturer or same class
\* identity (program, semester, class)
ConflictingPairs(schedule) ==
    { p \in (1..Len(schedule)) \X (1..Len(schedule)) :
        /\ p[1] < p[2]
        /\ schedule[p[1]].hari = schedule[p[2]].hari
        /\ schedule[p[1]].jam_mulai < schedule[p[2]].jam_akhir
        /\ schedule[p[2]].jam_mulai < schedule[p[1]].jam_akhir
        /\ \/ schedule[p[1]].id_dosen = schedule[p[2]].id_dosen
           \/ /\ schedule[p[1]].prodi = schedule[p[2]].prodi
              /\ schedule[p[1]].semester = schedule[p[2]].semester
              /\ schedule[p[1]].id_kelas = schedule[p[2]].id_kelas }

\* C8: the conflict penalty is 100 times the number of unordered pairs of
\* scheduled courses that share a weekday, overlap in time and have the same
\* lecturer or the same class identity (program, semester, class).
C8_ConflictPenalty ==
    d_pc = "evaluated"
        => d_penalty.conflict = 100 * Cardinality(ConflictingPairs(d_schedule))

\* the groups of the credit-overflow rule of the specification
CreditGroup(c) == << c.id_waktu, c.prodi, c.semester, c.id_kelas, c.hari >>

CreditSum(schedule, g) ==
    SumSeq([ j \in 1..Len(schedule) |->
               IF CreditGroup(schedule[j]) = g THEN schedule[j].sks ELSE 0 ])

CreditOverflow(schedule) ==
    LET groups == { CreditGroup(schedule[j]) : j \in 1..Len(schedule) }
    IN  SumOver(groups, [ g \in groups |->
                            IF CreditSum(schedule, g) > 6
                            THEN 100 * (CreditSum(schedule, g) - 6) ELSE 0 ])

\* C9: the credit-overflow penalty is the sum, over the groups keyed by
\* (session band, program, semester, class, weekday) whose credits exceed 6, of
\* 100 * (credit sum - 6); courses of different classes, programs or semesters
\* are never summed together.
C9_CreditOverflowPenalty ==
    d_pc = "evaluated" => d_penalty.distribution = CreditOverflow(d_schedule)

\* the lecturers of a preference table
Listed(prefs) == { prefs[k].id_dosen : k \in 1..Len(prefs) }

\* the boolean of a lecturer for a weekday and a session, read from the entry
\* the table holds for that lecturer (the last one listed)
SlotField(hari, session) ==
    << "senin", "selasa", "rabu", "kamis", "jumat" >>[hari] \o "_" \o session

Tolerates(prefs, id_dosen, hari, session) ==
    LET k == CHOOSE m \in 1..Len(prefs) :
               /\ prefs[m].id_dosen = id_dosen
               /\ \A n \in 1..Len(prefs) : prefs[n].id_dosen = id_dosen => n <= m
    IN  prefs[k][SlotField(hari, session)]

Violations(prefs, schedule) ==
    { j \in 1..Len(schedule) :
        /\ schedule[j].id_dosen \in Listed(prefs)
        /\ ~Tolerates(prefs, schedule[j].id_dosen, schedule[j].hari,
                      IF schedule[j].jam_mulai < 1080 THEN "pagi" ELSE "malam") }

\* C10: the preference penalty is 300 times the number of scheduled courses
\* whose lecturer has an entry in the preference table and whose (weekday,
\* session) boolean is false, the session being morning iff start < 1080;
\* courses of lecturers without an entry contribute nothing.
C10_PreferencePenalty ==
    d_pc = "evaluated"
        => d_penalty.preference = 300 * Cardinality(Violations(d_prefs, d_schedule))

\* an evaluated timetable with a violating evening course and a course whose
\* lecturer has no entry
C10_Witness ==
    /\ d_pc = "evaluated"
    /\ d_penalty.preference = 300
    /\ \E j \in 1..Len(d_schedule) :
         /\ j \in Violations(d_prefs, d_schedule)
         /\ d_schedule[j].jam_mulai >= 1080
    /\ \E j \in 1..Len(d_schedule) : d_schedule[j].id_dosen \notin Listed(d_prefs)

\* C11: the total fitness is never negative, and it is 0 for every timetable
\* without a conflicting pair (same lecturer or same class identity), without
\* a (band, program, semester, class, weekday) group above 6 credits and
\* without a preference violation.
C11_FitnessZeroWhenClean ==
    d_pc = "evaluated"
        => /\ d_penalty.total >= 0
           /\ (/\ ConflictingPairs(d_schedule) = {}
               /\ CreditOverflow(d_schedule) = 0
               /\ Violations(d_prefs, d_schedule) = {})
                 => d_penalty.total = 0

\* the pairs of positions of a timetable detect_conflicts holds in conflict
ConflictIndexPairs(schedule) ==
    { p \in (1..Len(schedule)) \X (1..Len(schedule)) :
        /\ p[1] < p[2]
        /\ schedule[p[1]].hari = schedule[p[2]].hari
        /\ is_overlap(schedule[p[1]], schedule[p[2]])
        /\ \/ same_ruangan_kelas(schedule[p[1]], schedule[p[2]])
           \/ same_dosen(schedule[p[1]], schedule[p[2]]) }

\* the unordered pairs of schedule ids of those pairs
ConflictIdPairs(schedule) ==
    { { schedule[p[1]].id_jadwal, schedule[p[2]].id_jadwal } :
        p \in ConflictIndexPairs(schedule) }

\* C12: the penalties of a timetable are those of the same courses in any other
\* order, and the conflict penalty counts 100 once for every unordered pair of
\* schedule ids in conflict, however many pairs of courses carry those ids.
C12_PenaltyOrderInvariant ==
    /\ d_pc = "reordered" => d_penalty2 = d_penalty
    /\ d_pc \in {"evaluated", "reordered"}
         => d_penalty.conflict = 100 * Cardinality(ConflictIdPairs(d_schedule))

\* a reordered timetable in which two conflicting pairs of courses carry the
\* same pair of schedule ids, the penalty counting them once
C12_Witness ==
    /\ d_pc = "reordered"
    /\ d_schedule2 # d_schedule
    /\ Cardinality(ConflictIndexPairs(d_schedule)) = 2
    /\ Cardinality(ConflictIdPairs(d_schedule)) = 1
    /\ d_penalty2.conflict = 100
    /\ d_penalty2.total > 100

\* the course list of the forced-overlap scenario: two courses of one lecturer
\* and one class of the morning band, 5 SKS each
ForcedOverlapInput(input) ==
    /\ Len(input) = 2
    /\ input[1].id_dosen = input[2].id_dosen
    /\ GroupKey(input[1]) = GroupKey(input[2])
    /\ input[1].id_waktu = 1
    /\ input[1].sks = 5 /\ input[2].sks = 5

\* C17: in the forced-overlap scenario the decoder places both courses on the
\* same weekday, the time cursor resets so that they overlap, and the
\* evaluation holds a conflict penalty of at least 100 and a credit-overflow
\* penalty of 400.
C17_ForcedOverlap ==
    (d_pc = "evaluated" /\ ForcedOverlapInput(d_courses))
        => /\ d_schedule[1].hari = d_schedule[2].hari
           /\ is_overlap(d_schedule[1], d_schedule[2])
           /\ d_penalty.conflict >= 100
           /\ d_penalty.distribution = 400

\* C17 as amended: in that scenario the second course in day order does not fit
\* the budget of 6 on Monday and moves to Tuesday.  The course with the smaller
\* day-order score (the first listed on a tie) is taught on Monday, the other
\* on Tuesday, both from 480 to 680; nothing overlaps, the conflict penalty and
\* the credit-overflow penalty are 0.
C17_ForcedOverlapSpills ==
    (d_pc = "evaluated" /\ ForcedOverlapInput(d_courses))
        => /\ Len(d_schedule) = 2
           /\ \A j \in 1..2 :
                /\ d_schedule[j].jam_mulai = 480
                /\ d_schedule[j].jam_akhir = 680
                /\ d_schedule[j].hari =
                     IF d_schedule[j].id_jadwal = 1
                     THEN (IF d_position[1] <= d_position[3] THEN 1 ELSE 2)
                     ELSE (IF d_position[1] <= d_position[3] THEN 2 ELSE 1)
           /\ d_schedule[1].id_jadwal # d_schedule[2].id_jadwal
           /\ d_penalty.conflict = 0
           /\ d_penalty.distribution = 0

\* the scenario evaluated, the second course listed having the smaller
\* day-order score and so Monday
C17_Witness ==
    /\ d_pc = "evaluated"
    /\ ForcedOverlapInput(d_courses)
    /\ d_position[3] < d_position[1]
    /\ \E j \in 1..2 : d_schedule[j].id_jadwal = 2 /\ d_schedule[j].hari = 1
    /\ \E j \in 1..2 : d_schedule[j].id_jadwal = 1 /\ d_schedule[j].hari = 2
    /\ d_penalty.conflict + d_penalty.distribution = 0

\* how two scores compare
Sign(a, b) == IF a < b THEN -1 ELSE IF a = b THEN 0 ELSE 1

\* the weekday the timetable gives the course of schedule id `id`
HariOf(schedule, id) ==
    schedule[CHOOSE j \in 1..Len(schedule) : schedule[j].id_jadwal = id].hari

\* x and y put the day-order scores of every group in the same order, and the
\* time-order scores of every group-day of the timetable decoded from x
SameOrder(x, y, input, schedule) ==
    \A a, b \in 1..Len(input) :
        GroupKey(input[a]) = GroupKey(input[b])
            => /\ Sign(x[2 * a - 1], x[2 * b - 1]) = Sign(y[2 * a - 1], y[2 * b - 1])
               /\ HariOf(schedule, a) = HariOf(schedule, b)
                    => Sign(x[2 * a], x[2 * b]) = Sign(y[2 * a], y[2 * b])

\* weekday, start and end of every course of a timetable
Assignments(schedule) ==
    { << schedule[j].id_jadwal, schedule[j].hari, schedule[j].jam_mulai,
         schedule[j].jam_akhir >> : j \in 1..Len(schedule) }

\* C19: two position vectors that order the day-order scores of every group
\* alike, and the time-order scores of every group-day alike, are decoded to
\* the same weekday, start and end for every course.
C19_OnlyRelativeOrderMatters ==
    (d_pc = "other" /\ SameOrder(d_position, d_position2, d_courses, d_schedule))
        => Assignments(d_schedule2) = Assignments(d_schedule)

\* two courses of one class on Monday, the second listed first in time order,
\* decoded alike from two vectors that differ in all four scores
C19_Witness ==
    /\ d_pc = "other"
    /\ SameOrder(d_position, d_position2, d_courses, d_schedule)
    /\ \A k \in 1..4 : d_position[k] # d_position2[k]
    /\ d_position[2] > d_position[4]
    /\ << 2, 1, 480, 600 >> \in Assignments(d_schedule2)
    /\ << 1, 1, 600, 720 >> \in Assignments(d_schedule2)

(***************************************************************************)
(* Properties of the runs (Spec)                                           *)
(***************************************************************************)
\* C3: during one run of optimize the global best fitness never increases: its
\* value after every step of the run is at most its value before.
C3_GlobalBestNeverIncreases ==
    [][ e_pc # "idle" => global_best_fitness' <= global_best_fitness ]_vars

\* a run whose global best went from one finite value to a smaller one
C3_Witness ==
    /\ e_pc = "move"
    /\ emitted # << >>
    /\ emitted[1].best_fitness < INFINITY
    /\ global_best_fitness < emitted[1].best_fitness

\* C4: a particle's personal best fitness never increases: it and the personal
\* best position change only in update_personal_best, and only to a current
\* fitness that is strictly smaller, together with the current position.
C4_PersonalBestNeverIncreases ==
    [][ e_pc # "idle" =>
          \A p \in 1..Len(particles) :
            \/ /\ particles'[p].pbest_fitness = particles[p].pbest_fitness
               /\ particles'[p].pbest_position = particles[p].pbest_position
            \/ /\ e_pc = "evaluate"
               /\ p \in pending
               /\ particles'[p].fitness < particles[p].pbest_fitness
               /\ particles'[p].pbest_fitness = particles'[p].fitness
               /\ particles'[p].pbest_position = particles'[p].position ]_vars

\* a particle evaluated to a fitness above its finite personal best, which it kept
C4_Witness ==
    /\ e_pc = "evaluate"
    /\ \E p \in 1..Len(particles) :
         /\ p \notin pending
         /\ particles[p].pbest_fitness < particles[p].fitness
         /\ particles[p].fitness < INFINITY
         /\ particles[p].pbest_position # particles[p].position

\* the steps process_pso has left once the stop flag is set: the rest of the
\* current iteration, the end of optimize, the return
StepsLeft ==
    CASE c_pc = "returned" -> 1
      [] c_pc = "optimize" /\ e_pc = "final"    -> 2
      [] c_pc = "optimize" /\ e_pc = "check"    -> 3
      [] c_pc = "optimize" /\ e_pc = "move"     -> Cardinality(pending) + 4
      [] c_pc = "optimize" /\ e_pc = "evaluate" ->
            Cardinality(pending) + Len(particles) + 5
      [] OTHER -> 0

\* a cancelled run can take a step
CanStep ==
    \/ ENABLED (LoopExit \/ LoopBreak \/ LoopEnter \/ UpdateGlobalBest
                  \/ NextIteration \/ EarlyStop \/ Finish \/ CancelReturn)
    \/ ENABLED (\E p \in 1..MaxParticles : UpdateParticle(p))
    \/ /\ e_pc = "evaluate"
       /\ \E p \in pending : Fitnesses(particles[p].position) # {}

\* C5: once the stop flag is set during a run, no further iteration is entered
\* and the run ends: process_pso is never stuck, each of its steps leaves
\* fewer steps to go (at most the rest of the current iteration, the final
\* snapshot and the return), the exit from optimize emits the final snapshot
\* and the invocation then returns its result.
C5_StopExitsAtBoundary ==
    /\ []((stop_flag /\ c_pc \in {"optimize", "returned"}) => CanStep)
    /\ [][ (stop_flag /\ c_pc \in {"optimize", "returned"}) =>
              /\ e_pc' = "evaluate" => e_pc = "evaluate"
              /\ StepsLeft' < StepsLeft
              /\ (c_pc = "optimize" /\ c_pc' # "optimize") =>
                    /\ c_pc' = "returned"
                    /\ emitted'[Len(emitted')].is_finished
                    /\ returned' # << >>
              /\ c_pc = "returned" => (c_pc' = "done" /\ result' # << >>) ]_vars

\* a run left at the head of its second iteration because the flag was set,
\* with iterations to go and a global best that is not optimal
C5_Witness ==
    /\ e_pc = "final"
    /\ stop_flag
    /\ iteration = 1
    /\ iteration < params.max_iterations
    /\ ~IsOptimal(global_best_fitness)

\* C6: a cancelled invocation returns the best so far: when process_pso has
\* returned with the flag set, its last run having completed two iterations (so
\* that the flag was set after the first) and logged a finite best fitness, the
\* result carries a timetable and a fitness at least as good as that one.
C6_CancelReturnsBestSoFar ==
    (/\ c_pc = "done"
     /\ stop_flag
     /\ Len(emitted) >= 3
     /\ all_best_fitness # << >>
     /\ all_best_fitness[Len(all_best_fitness)] < INFINITY)
        => /\ result[1].schedule # << >>
           /\ result[1].fitness <= all_best_fitness[Len(all_best_fitness)]

RECURSIVE MinOf(_)
MinOf(s) == IF s = << >> THEN INFINITY ELSE Min2(Head(s), MinOf(Tail(s)))

\* the timetables that decode a position of that fitness
DecodesOfFitness(fitness) ==
    UNION { RunSchedules[courses][x] :
            x \in { y \in RunPositions(courses) : fitness \in Fitnesses(y) } }

\* C7: when process_pso returns, the reported fitness is the minimum of the
\* reported per-run best fitnesses (INFINITY for an empty list) and, when that
\* is finite, the timetable is the decode of a position of that fitness.
C7_ResultIsMinimumOfRuns ==
    c_pc = "done"
        => /\ result[1].fitness = MinOf(result[1].all_best_fitness)
           /\ result[1].fitness < INFINITY
                => /\ result[1].schedule # << >>
                   /\ result[1].schedule[1] \in DecodesOfFitness(result[1].fitness)

\* the empty timetable is what the position optimize returned decodes to
ReturnedEmptyTimetable == RunSchedules[courses][returned[1]] = { << >> }

\* C13: with zero courses optimize completes at once (after at most one
\* iteration) and returns fitness 0 and a position that decodes to the empty
\* timetable, whatever swarm size and max_iterations the caller passed.
C13_ZeroCoursesAnyParameters ==
    (courses = << >> /\ c_pc = "returned")
        => /\ returned[2] = 0
           /\ ReturnedEmptyTimetable
           /\ Len(emitted) <= 2

\* C13 as amended: with zero courses, swarm_size >= 1 and max_iterations >= 1, a
\* run that was not stopped before its first iteration performs exactly one
\* iteration, whose snapshot shows fitness 0, stops early and returns fitness 0
\* and the empty position, which decodes to the empty timetable.
C13_ZeroCoursesOneIteration ==
    (/\ courses = << >>
     /\ c_pc = "returned"
     /\ params.swarm_size >= 1
     /\ params.max_iterations >= 1
     /\ ~(stop_flag /\ Len(emitted) = 1))
        => /\ returned = << << >>, 0 >>
           /\ ReturnedEmptyTimetable
           /\ Len(emitted) = 2
           /\ emitted[1].iteration = 1
           /\ emitted[1].best_fitness = 0
           /\ ~emitted[1].is_finished

\* a run on zero courses that had two iterations to go and returned after one
C13_Witness ==
    /\ courses = << >>
    /\ c_pc = "returned"
    /\ params.swarm_size >= 1
    /\ params.max_iterations = 2
    /\ ~stop_flag
    /\ returned = << << >>, 0 >>
    /\ iteration = 0

\* C14: NaN is ignored.  A particle evaluated to NaN keeps its personal best
\* fitness and position; the refresh of the global best never adopts a NaN
\* personal best: when it changes the global best, the new one is the personal
\* best of a particle whose personal best fitness is not NaN, and when every
\* personal best is NaN the global best stays.
C14_NaNIgnored ==
    [][ /\ \A p \in 1..Len(particles) :
             (p \in pending /\ p \notin pending' /\ is_nan(particles'[p].fitness))
                => /\ particles'[p].pbest_fitness = particles[p].pbest_fitness
                   /\ particles'[p].pbest_position = particles[p].pbest_position
        /\ (e_pc = "evaluate" /\ e_pc' = "move")
             => /\ ~is_nan(global_best_fitness')
                /\ \/ /\ global_best_fitness' = global_best_fitness
                      /\ global_best_position' = global_best_position
                   \/ \E p \in 1..Len(particles) :
                         /\ ~is_nan(particles[p].pbest_fitness)
                         /\ global_best_fitness' = particles[p].pbest_fitness
                         /\ global_best_position' = particles[p].pbest_position ]_vars

\* after a refresh: a particle evaluated to NaN that kept a finite personal
\* best, another whose personal best is NaN, and a global best that the
\* refresh took from the first
C14_Witness ==
    /\ e_pc = "move"
    /\ Len(particles) = 2
    /\ is_nan(particles[2].fitness)
    /\ particles[2].pbest_fitness = 0
    /\ is_nan(particles[1].pbest_fitness)
    /\ particles[1].pbest_position # particles[2].pbest_position
    /\ global_best_fitness = 0
    /\ global_best_position = particles[2].pbest_position

\* C15: optimize leaves by one step, whatever made it leave the loop: it
\* appends one value to the run log, the global best fitness, then emits one
\* snapshot with is_finished (it carries that log and that fitness, and no
\* earlier snapshot of the run is finished), and returns the global best
\* position with that fitness.  Before that the run neither touches the log
\* nor emits a finished snapshot.
C15_ExitLogsEmitsReturns ==
    [][ /\ (c_pc = "optimize" /\ c_pc' # "optimize")
             => /\ c_pc' = "returned"
                /\ returned' = << global_best_position, global_best_fitness >>
                /\ all_best_fitness' = Append(all_best_fitness, returned'[2])
                /\ Len(emitted') = Len(emitted) + 1
                /\ emitted'[Len(emitted')].is_finished
                /\ emitted'[Len(emitted')].best_fitness = returned'[2]
                /\ emitted'[Len(emitted')].all_best_fitness = all_best_fitness'
                /\ \A k \in 1..Len(emitted) :
                      emitted'[k] = emitted[k] /\ ~emitted[k].is_finished
        /\ (c_pc = "optimize" /\ c_pc' = "optimize")
             => /\ all_best_fitness' = all_best_fitness
                /\ returned' = << >>
                /\ \A k \in 1..Len(emitted') : ~emitted'[k].is_finished ]_vars

\* the second run of an invocation, cancelled after the first of its two
\* iterations with a global best that is finite and not optimal
C15_Witness ==
    /\ c_pc = "returned"
    /\ i = 1
    /\ params.max_iterations = 2
    /\ Len(emitted) = 2
    /\ emitted[2].is_finished
    /\ returned[2] < INFINITY
    /\ ~IsOptimal(returned[2])
    /\ Len(all_best_fitness) = 2

\* C16: within a run every snapshot carries a greater iteration index than the
\* snapshot before it, the final snapshot included.
C16_SnapshotsStrictlyIncreasing ==
    \A k \in 1..(Len(emitted) - 1) : emitted[k + 1].iteration > emitted[k].iteration

\* C16 as amended: within a run the iteration indices never decrease.  The
\* snapshots of the iterations are numbered 1, 2, ... in steps of one; the
\* final snapshot carries max_iterations, which is at least the index before
\* it (and equal to it when the run completed every iteration).
C16_SnapshotsNonDecreasing ==
    /\ \A k \in 1..(Len(emitted) - 1) :
         /\ emitted[k + 1].iteration >= emitted[k].iteration
         /\ ~emitted[k + 1].is_finished
              => emitted[k + 1].iteration = emitted[k].iteration + 1
    /\ \A k \in 1..Len(emitted) :
         /\ emitted[k].is_finished => emitted[k].iteration = params.max_iterations
         /\ (k = 1 /\ ~emitted[k].is_finished) => emitted[k].iteration = 1

\* a run that completed its two iterations: the snapshots carry 1, 2 and 2
C16_Witness ==
    /\ c_pc = "returned"
    /\ Len(emitted) = 3
    /\ emitted[1].iteration = 1
    /\ emitted[2].iteration = 2 /\ ~emitted[2].is_finished
    /\ emitted[3].iteration = 2 /\ emitted[3].is_finished

\* C18: a run with max_iterations = 0 evaluates nothing (no particle gets a
\* fitness or a personal best, no iteration snapshot is emitted) and returns
\* the initial global best: the zero vector of length 2N and +infinity,
\* whatever the swarm size and the course list.
C18_ZeroIterationsReturnInitialBest ==
    (c_pc \in {"optimize", "returned"} /\ params.max_iterations = 0)
        => /\ e_pc \notin {"evaluate", "move"}
           /\ \A p \in 1..Len(particles) :
                /\ particles[p].fitness = INFINITY
                /\ particles[p].pbest_fitness = INFINITY
           /\ c_pc = "returned"
                => /\ returned = << Zeros(2 * Len(courses)), INFINITY >>
                   /\ Len(emitted) = 1
                   /\ emitted[1].is_finished

\* a swarm of two particles on the two courses returned from a run of no iteration
C18_Witness ==
    /\ c_pc = "returned"
    /\ params.max_iterations = 0
    /\ Len(particles) = 2
    /\ Len(courses) = 2
    /\ returned = << << 0, 0, 0, 0 >>, INFINITY >>


\* the order in which optimize passes from one step to the next
PhaseOrder ==
    { << "idle", "check" >>, << "check", "evaluate" >>, << "check", "final" >>,
      << "evaluate", "move" >>, << "move", "check" >>, << "move", "final" >>,
      << "final", "idle" >> }

\* a step of one parallel worker: it takes one particle nobody has taken in this
\* phase and changes that particle alone
OneWorkerStep ==
    \E p \in pending :
        /\ pending' = pending \ {p}
        /\ \A q \in (1..Len(particles)) \ {p} : particles'[q] = particles[q]
        /\ e_pc = "move" => particles'[p] \in Moves(particles[p], global_best_position)

\* C20: an iteration runs stop-check, evaluation of all particles, the refresh
\* of the global best, the move of all particles, the snapshot, in this order;
\* every move of the iteration reads the global best its refresh produced, and
\* no particle is changed by two workers of a phase.
C20_PhasesInOrder ==
    [][ /\ e_pc' # e_pc => << e_pc, e_pc' >> \in PhaseOrder
        /\ (e_pc = "check" /\ e_pc' = "evaluate")
             => (~stop_flag /\ pending' = 1..Len(particles))
        /\ (e_pc = "evaluate" /\ e_pc' = "move")
             => /\ pending = {}
                /\ pending' = 1..Len(particles)
                /\ particles' = particles
                /\ << global_best_position', global_best_fitness' >> =
                     ScanGlobalBest(particles, 1,
                         << global_best_position, global_best_fitness >>)
        /\ e_pc # "evaluate"
             => UNCHANGED << global_best_position, global_best_fitness >>
                  \/ e_pc = "idle"
        /\ (e_pc = "move" /\ e_pc' # "move")
             => /\ pending = {}
                /\ Len(emitted') = Len(emitted) + 1
                /\ emitted'[Len(emitted')].iteration = iteration + 1
        /\ (e_pc \in {"evaluate", "move"} /\ e_pc' = e_pc
               /\ << particles, pending >>' # << particles, pending >>)
             => OneWorkerStep
        /\ e_pc \in {"check", "final"} => UNCHANGED particles
      ]_vars

\* the second iteration has moved two particles toward a global best that the
\* evaluations have found
C20_Witness ==
    /\ e_pc = "move"
    /\ pending = {}
    /\ iteration = 1
    /\ Len(particles) = 2
    /\ global_best_fitness < INFINITY
    /\ particles[1].position # particles[2].position


\* the courses of the list `input` that belong to the group g
GroupMembers(input, g) == { a \in 1..Len(input) : GroupKey(input[a]) = g }

\* the members of the group g in ascending day-order score, input order among
\* equal scores
DayBefore(x, b, a) ==
    x[2 * b - 1] < x[2 * a - 1] \/ (x[2 * b - 1] = x[2 * a - 1] /\ b < a)

DaySorted(x, input, g) ==
    LET M == GroupMembers(input, g)
    IN  [ r \in 1..Cardinality(M) |->
            CHOOSE a \in M : Cardinality({ b \in M : DayBefore(x, b, a) }) = r - 1 ]

\* the day packing rule on the group g of the timetable `schedule`: fallback[k]
\* tells that the k-th course in day order got Friday as the fallback
DayPackingRule(x, input, schedule, g, fallback) ==
    LET idx     == DaySorted(x, input, g)
        n       == Len(idx)
        B       == IF n = 4 THEN 3 ELSE 6
        hari(k) == HariOf(schedule, input[idx[k]].id_jadwal)
        sks(k)  == input[idx[k]].sks
        cursor(k) == IF k = 1 THEN 1
                     ELSE IF fallback[k - 1] THEN 6 ELSE hari(k - 1)
        load(k, d) ==
            SumOver({ j \in 1..(k - 1) : ~fallback[j] /\ hari(j) = d },
                    [ j \in 1..n |-> sks(j) ])
    IN  /\ \A k \in 1..n :
             IF fallback[k]
             THEN /\ hari(k) = 5
                  /\ \A d \in cursor(k)..5 : load(k, d) + sks(k) > B
             ELSE /\ hari(k) \in cursor(k)..5
                  /\ load(k, hari(k)) + sks(k) <= B
                  /\ \A d \in cursor(k)..(hari(k) - 1) : load(k, d) + sks(k) > B
        /\ \A k \in 1..(n - 1) : hari(k) <= hari(k + 1)
        /\ \A d \in 1..5 : load(n + 1, d) <= B

\* C21: in each group, taken in ascending day-order score with a cursor that
\* never moves back and the budget 3 for four courses and 6 otherwise, a course
\* gets the first weekday at or after the cursor that has room, else Friday
\* with no load changed; the weekdays do not decrease along that order and the
\* credits placed on a weekday without the fallback stay within the budget.
C21_DayPacking ==
    d_pc = "decoded"
        => \A g \in { GroupKey(d_courses[a]) : a \in 1..Len(d_courses) } :
             \E fallback \in [ 1..Cardinality(GroupMembers(d_courses, g)) -> BOOLEAN ] :
                DayPackingRule(d_position, d_courses, d_schedule, g, fallback)

\* four courses of 3 SKS under the budget 3: one a day, the fourth course first
C21_Witness ==
    /\ d_pc = "decoded"
    /\ Len(d_courses) = 4
    /\ \A a \in 1..4 : d_courses[a].sks = 3
    /\ HariOf(d_schedule, 4) = 1
    /\ HariOf(d_schedule, 1) = 2
    /\ HariOf(d_schedule, 2) = 3
    /\ HariOf(d_schedule, 3) = 4


\* the entry the timetable has for the course of schedule id `id`
EntryOf(schedule, id) ==
    schedule[CHOOSE j \in 1..Len(schedule) : schedule[j].id_jadwal = id]

\* the courses of the group g that the timetable puts on the weekday `hari`
DayMembers(input, schedule, g, hari) ==
    { a \in GroupMembers(input, g) : HariOf(schedule, input[a].id_jadwal) = hari }

\* the members of a group-day in ascending time-order score, day order among
\* equal scores
TimeSorted(x, input, schedule, g, hari) ==
    LET M == DayMembers(input, schedule, g, hari)
        Before(b, a) == x[2 * b] < x[2 * a]
                          \/ (x[2 * b] = x[2 * a] /\ DayBefore(x, b, a))
    IN  [ r \in 1..Cardinality(M) |->
            CHOOSE a \in M : Cardinality({ b \in M : Before(b, a) }) = r - 1 ]

\* start and end of the session window of a band
WindowStart(band) == IF band = 2 THEN 1080 ELSE 480

WindowEnd(band) == IF band = 2 THEN 1320 ELSE 720

\* the time packing rule on one group-day of the timetable
TimePackingRule(x, input, schedule, g, hari) ==
    LET idx        == TimeSorted(x, input, schedule, g, hari)
        entry(k)   == EntryOf(schedule, input[idx[k]].id_jadwal)
        dur(k)     == 40 * input[idx[k]].sks
        cursor(k)  == IF k = 1 THEN WindowStart(g[4]) ELSE entry(k - 1).jam_akhir
    IN  \A k \in 1..Len(idx) :
            /\ entry(k).jam_mulai =
                  IF cursor(k) + dur(k) > WindowEnd(g[4]) THEN WindowStart(g[4])
                  ELSE cursor(k)
            /\ entry(k).jam_akhir = entry(k).jam_mulai + dur(k)

\* C22: in each group-day, taken in ascending time-order score, the cursor
\* starts at the window start (480 to 720 for band 1 and any unknown band, 1080
\* to 1320 for band 2); a course of 40 minutes a credit starts at the cursor, or
\* at the window start when it would pass the window end, and the cursor moves
\* to its end.
C22_TimePacking ==
    d_pc = "decoded"
        => \A g \in { GroupKey(d_courses[a]) : a \in 1..Len(d_courses) } :
             \A hari \in 1..5 :
                TimePackingRule(d_position, d_courses, d_schedule, g, hari)

\* a group of an unknown band on Friday: the third course comes first in time
\* order, and the second, of 7 SKS, is put back to 08:00 over it
C22_Witness ==
    /\ d_pc = "decoded"
    /\ Len(d_courses) = 3
    /\ d_courses[1].id_waktu = 3
    /\ d_position[6] < d_position[4]
    /\ << 3, 5, 480, 560 >> \in Assignments(d_schedule)
    /\ << 2, 5, 480, 760 >> \in Assignments(d_schedule)


\* the credits of the group g that the timetable puts on the weekday `hari`
DayCredits(input, schedule, g, hari) ==
    SumOver(DayMembers(input, schedule, g, hari),
            [ a \in 1..Len(input) |-> input[a].sks ])

\* the two entries share some minute
Overlapping(a, b) == a.jam_mulai < b.jam_akhir /\ b.jam_mulai < a.jam_akhir

\* C26: two courses of a group on one weekday overlap only if the group's
\* credits of that weekday exceed 6, which happens on weekday 5 only; on the
\* weekdays 1 to 4 the intervals of a group are pairwise disjoint, follow one
\* another from the window start in time order, and end within the window.
C26_OverlapOnlyOnFriday ==
    d_pc = "decoded"
        => \A g \in { GroupKey(d_courses[a]) : a \in 1..Len(d_courses) } :
             \A hari \in 1..5 :
                LET M        == DayMembers(d_courses, d_schedule, g, hari)
                    idx      == TimeSorted(d_position, d_courses, d_schedule, g, hari)
                    entry(a) == EntryOf(d_schedule, d_courses[a].id_jadwal)
                IN  /\ (\E a, b \in M : a # b /\ Overlapping(entry(a), entry(b)))
                         => DayCredits(d_courses, d_schedule, g, hari) > 6
                    /\ DayCredits(d_courses, d_schedule, g, hari) > 6 => hari = 5
                    /\ hari \in 1..4
                         => /\ \A a, b \in M :
                                  a # b => ~Overlapping(entry(a), entry(b))
                            /\ \A k \in 1..Len(idx) :
                                  /\ entry(idx[k]).jam_mulai =
                                        IF k = 1 THEN WindowStart(g[4])
                                        ELSE entry(idx[k - 1]).jam_akhir
                                  /\ entry(idx[k]).jam_akhir <= WindowEnd(g[4])

\* one course on Monday; the course of 7 SKS fell back to Friday and took the
\* next course with it, which is put back to 08:00 over it
C26_Witness ==
    /\ d_pc = "decoded"
    /\ Assignments(d_schedule) =
          { << 1, 1, 480, 600 >>, << 2, 5, 480, 760 >>, << 3, 5, 480, 560 >> }
    /\ DayCredits(d_courses, d_schedule, GroupKey(d_courses[1]), 5) = 9


\* C23: at the head of the for loop of the run controller, a stop flag that is
\* already set makes the controller break: no engine is constructed or invoked
\* for that run index, no snapshot is emitted and nothing is appended to the
\* per-run fitness list.
C23_StopCheckedBeforeRun ==
    [][ (c_pc = "loop" /\ stop_flag)
          => /\ c_pc' \in {"loop", "done"}
             /\ e_pc' = "idle"
             /\ UNCHANGED << particles, emitted, all_best_fitness >>
      ]_vars


\* the invocation is between its start and its return
InProgress(k) == calls[k].pc \in {"loop", "optimize", "returned"}

\* C24: a stop_pso call sets the flag of every process_pso invocation that is in
\* progress, and the flag of an invocation, once set, is never cleared for it,
\* also when another invocation starts and replaces the flag in the slot.
C24_StopReachesEveryCall ==
    [][ /\ StopCalls => \A k \in 1..MaxCalls : InProgress(k) => calls'[k].stop_flag
        /\ \A k \in 1..MaxCalls :
              (InProgress(k) /\ calls[k].stop_flag) => calls'[k].stop_flag
      ]_vars


\* decoding and evaluating the position gives exactly the fitness
EvaluatesTo(position, fitness) == Fitnesses(position) = { fitness }

\* the personal bests agree with the evaluator; the zero vector stands in only
\* while the personal best is +infinity, and no longer when the particles move
PersonalBestsConsistent ==
    e_pc # "idle"
        => \A p \in 1..Len(particles) :
             /\ particles[p].pbest_fitness < INFINITY
                  => EvaluatesTo(particles[p].pbest_position, particles[p].pbest_fitness)
             /\ particles[p].pbest_fitness = INFINITY
                  => /\ particles[p].pbest_position = Zeros(Dimension)
                     /\ e_pc # "move"

\* the run has refreshed its global best and evaluated no particle since
Refreshed ==
    \/ e_pc = "move"
    \/ e_pc \in {"check", "final"} /\ Len(emitted) >= 1

\* after a refresh with at least one particle the global best is the least
\* personal best and agrees with the evaluator
GlobalBestConsistent ==
    (Refreshed /\ Len(particles) >= 1)
        => /\ \E p \in 1..Len(particles) :
                 global_best_fitness = particles[p].pbest_fitness
           /\ \A p \in 1..Len(particles) :
                 global_best_fitness <= particles[p].pbest_fitness
           /\ EvaluatesTo(global_best_position, global_best_fitness)

\* C25: a finite personal best is the fitness of its position, the global best
\* after a refresh with at least one particle is the least personal best and
\* the fitness of its position, and so the fitness optimize returns is the
\* penalty of the timetable decoded from the position it returns.
C25_BestRecordsConsistent ==
    /\ PersonalBestsConsistent
    /\ GlobalBestConsistent
    /\ c_pc = "returned" => EvaluatesTo(returned[1], returned[2])

\* C25 as it holds: the fitness optimize returns is the penalty of the timetable
\* decoded from the returned position when the run has refreshed its global
\* best at least once with at least one particle.
C25_BestRecordsConsistentOnceRefreshed ==
    /\ PersonalBestsConsistent
    /\ GlobalBestConsistent
    /\ (c_pc = "returned" /\ Len(emitted) >= 2 /\ Len(particles) >= 1)
          => EvaluatesTo(returned[1], returned[2])

\* a run of two particles with different personal bests has returned the
\* smaller one after two iterations
C25_Witness ==
    /\ c_pc = "returned"
    /\ Len(emitted) = 3
    /\ Len(particles) = 2
    /\ particles[1].pbest_fitness < particles[2].pbest_fitness
    /\ particles[2].pbest_fitness < INFINITY
    /\ returned = << particles[1].pbest_position, particles[1].pbest_fitness >>

====
